---- MODULE Spec2Model ----
(***************************************************************************)
(* A model of the streaming smoke-test harnesses of sandboxed.sh:          *)
(*   scripts/mission_stream_smoke.py   (parse_sse, StreamStats,            *)
(*                                      StreamWatcher, run_backend, main)  *)
(*   scripts/mission_browser_smoke.py  (StreamStats.ok, on_event)          *)
(*   scripts/proxy_smoke.py            (StreamStats.ok, on_sse_event)      *)
(*                                                                         *)
(* Text is modelled as a sequence of tokens.  The tokens "event:", "data:" *)
(* and ":" stand for those literal prefixes, " " for a whitespace          *)
(* character, "\n" for the newline that join() inserts, and every other    *)
(* token for a run of non-blank characters.  A JSON document is one token; *)
(* JsonTable gives the object it decodes to.                               *)
(***************************************************************************)
EXTENDS Integers, Sequences, FiniteSets, TLC

VARIABLES
    \* ---- parse_sse locals (mission_stream_smoke.py:105-106)
    event_type,     \* <<>> for None, <<label>> for a str
    data_lines,     \* the pending data values
    \* ---- the parser's surroundings
    input,          \* the lines read so far on this stream (in a run: on this
                    \* connection, since its last blank line)
    emitted,        \* the (event_type, data) pairs handed to on_event
    emitAt,         \* for each of them, the index of the line that emitted it
    pdone,          \* the parse loop has ended (end of stream)
    \* ---- one harness's StreamStats and what configures its routing
    harness,        \* "stream", "browser" or "proxy": whose StreamStats stats is
    require_thinking,
    stats,
    afterTrue,      \* an event was routed while the completion predicate held
    \* ---- run_backend (the orchestrator thread) for one backend
    timeout,        \* args.timeout, in ticks
    mpc,            \* where run_backend is
    pk,             \* which read of has_required_events the poll is at
    mtimer,         \* ticks left of the orchestrator's blocking call
    pdl,            \* ticks left to the polling deadline (line 265)
    queued_ok,
    polled,         \* how the polling loop ended: "none", "true", "deadline"
    verdict,        \* "none", "OK", "FAIL"
    stop_event,
    \* ---- StreamWatcher.run (the watcher thread)
    wpc,            \* where the watcher thread is
    wtimer,         \* ticks left of the watcher's blocking call
    wdl,            \* ticks left to the watcher's deadline (line 154)
    wevent,         \* the event on_event is in the middle of routing
    \* ---- the server and what is observed of the run
    sidx,           \* the next line of Script the server sends
    opens,          \* the outcomes of the open attempts, in order
    drops,          \* how many connections the server has ended
    delivered,      \* the complete groups delivered, each on one connection
    late,           \* ticks since the polling deadline, while run_backend runs
    \* main, over the list of backends
    backend,        \* the loop variable: an index into the list of backends
    bpc,            \* where main is, and run_backend under it
    results,        \* results
    failed,         \* failed
    watchers,       \* the backends a watcher was started for
    tried,          \* the backends run_backend was called for, in order
    raisedAt,       \* per backend, the step of run_backend that raised, or ""
    report,         \* what main printed about the backends, in order
    exit_code       \* the exit status of the process, or -1 while it runs

pvars == <<event_type, data_lines, input, emitted, emitAt, pdone>>

svars == <<harness, require_thinking, stats, afterTrue>>

mvars == <<timeout, mpc, pk, mtimer, pdl, queued_ok, polled, verdict, stop_event>>

wvars == <<wpc, wtimer, wdl, wevent>>

evars == <<sidx, opens, drops, delivered, late>>

bvars == <<backend, bpc, results, failed, watchers, tried, raisedAt, report,
           exit_code>>

rvars == <<timeout, mpc, pk, mtimer, pdl, queued_ok, polled, verdict, stop_event,
           wpc, wtimer, wdl, wevent, sidx, opens, drops, delivered, late>>

vars == <<event_type, data_lines, input, emitted, emitAt, pdone,
          harness, require_thinking, stats, afterTrue,
          timeout, mpc, pk, mtimer, pdl, queued_ok, polled, verdict, stop_event,
          wpc, wtimer, wdl, wevent, sidx, opens, drops, delivered, late,
          backend, bpc, results, failed, watchers, tried, raisedAt, report,
          exit_code>>

-----------------------------------------------------------------------------
(* Text helpers *)

None == <<>>

Some(x) == <<x>>

IsWs(tok) == tok \in {" ", "\n"}

RECURSIVE LStrip(_)
LStrip(s) == IF s # <<>> /\ IsWs(Head(s)) THEN LStrip(Tail(s)) ELSE s

RECURSIVE RStrip(_)
RStrip(s) ==
    IF s # <<>> /\ IsWs(s[Len(s)]) THEN RStrip(SubSeq(s, 1, Len(s) - 1)) ELSE s

\* str.strip()
Strip(s) == RStrip(LStrip(s))

\* str.startswith(prefix), for the one-token prefixes ":", "event:", "data:"
StartsWith(line, prefix) == line # <<>> /\ Head(line) = prefix

\* decoded[len(prefix):]
AfterPrefix(line) == Tail(line)

RECURSIVE JoinNl(_)
\* "\n".join(lines)
JoinNl(ls) ==
    IF ls = <<>> THEN <<>>
    ELSE IF Len(ls) = 1 THEN ls[1]
    ELSE ls[1] \o <<"\n">> \o JoinNl(Tail(ls))

\* Python truthiness of the Optional[str] event_type
Truthy(opt) == opt # None /\ opt[1] # <<>>

-----------------------------------------------------------------------------
(* parse_sse: one iteration of the loop body for a line that was read *)

\* the "if decoded == ''" branch; the reset is unconditional
ParseBlankNoReset(et, dl) ==
    IF Truthy(et) /\ dl # <<>>
    THEN [event_type |-> None, data_lines |-> <<>>,
          emit |-> <<[type |-> et[1], data |-> JoinNl(dl)]>>]
    ELSE [event_type |-> et, data_lines |-> dl, emit |-> <<>>]

ParseBlank(et, dl) ==
    [event_type |-> None,
     data_lines |-> <<>>,
     emit |-> IF Truthy(et) /\ dl # <<>>
              THEN <<[type |-> et[1], data |-> JoinNl(dl)]>>
              ELSE <<>>]

\* the loop body with a comment line handled as a blank line is
ParseLineCommentEnds(et, dl, line) ==
    IF StartsWith(line, ":") \/ line = <<>>
    THEN ParseBlank(et, dl)
    ELSE IF StartsWith(line, "event:")
    THEN [event_type |-> Some(Strip(AfterPrefix(line))), data_lines |-> dl,
          emit |-> <<>>]
    ELSE IF StartsWith(line, "data:")
    THEN [event_type |-> et,
          data_lines |-> Append(dl, Strip(AfterPrefix(line))),
          emit |-> <<>>]
    ELSE [event_type |-> et, data_lines |-> dl, emit |-> <<>>]

ParseLine(et, dl, line) ==
    IF StartsWith(line, ":")
    THEN [event_type |-> et, data_lines |-> dl, emit |-> <<>>]
    ELSE IF line = <<>>
    THEN ParseBlank(et, dl)
    ELSE IF StartsWith(line, "event:")
    THEN [event_type |-> Some(Strip(AfterPrefix(line))), data_lines |-> dl,
          emit |-> <<>>]
    ELSE IF StartsWith(line, "data:")
    THEN [event_type |-> et,
          data_lines |-> Append(dl, Strip(AfterPrefix(line))),
          emit |-> <<>>]
    ELSE [event_type |-> et, data_lines |-> dl, emit |-> <<>>]

-----------------------------------------------------------------------------
(* json.loads and the payloads of the model *)

EmptyObj ==
    [isobj |-> TRUE,
     mission_id |-> "",        \* "" : the key is absent (or empty)
     content |-> <<>>,         \* <<>> : absent or ""
     model |-> None,           \* None : no "model" key
     tool_call_id |-> "",
     name |-> <<>>,
     error |-> "",
     choices |-> <<>>,         \* of [content, finish]; finish "" : null
     usage |-> ""]

MissionId == "mine"

JsonTable ==
    [d \in {"J_empty", "J_c", "J_m", "J_mblank", "J_x1", "J_x2", "J_other",
            "J_mine", "J_num", "J_chunk", "J_last", "J_err", "J_nocontent"} |->
       CASE d = "J_empty" -> EmptyObj
         [] d = "J_c" -> [EmptyObj EXCEPT !.content = <<"hi">>]
         [] d = "J_m" -> [EmptyObj EXCEPT !.model = Some(<<" ", "m1", " ">>)]
         [] d = "J_mblank" -> [EmptyObj EXCEPT !.model = Some(<<" ">>)]
         [] d = "J_x1" -> [EmptyObj EXCEPT !.tool_call_id = "x1",
                                           !.name = <<"desktop_", "open">>]
         [] d = "J_x2" -> [EmptyObj EXCEPT !.tool_call_id = "x2",
                                           !.name = <<"bash">>]
         [] d = "J_other" -> [EmptyObj EXCEPT !.mission_id = "other",
                                              !.content = <<"hi">>,
                                              !.model = Some(<<"m2">>),
                                              !.tool_call_id = "x1",
                                              !.name = <<"browser_", "nav">>]
         [] d = "J_mine" -> [EmptyObj EXCEPT !.mission_id = MissionId,
                                             !.content = <<"hi">>,
                                             !.model = Some(<<"m1">>),
                                             !.tool_call_id = "x1",
                                             !.name = <<"x", "desktop_">>]
         [] d = "J_num" -> [EmptyObj EXCEPT !.isobj = FALSE]
         [] d = "J_chunk" ->
              [EmptyObj EXCEPT !.model = Some(<<"gpt">>),
                               !.choices = <<[content |-> <<"He">>, finish |-> ""]>>]
         [] d = "J_last" ->
              [EmptyObj EXCEPT !.choices = <<[content |-> <<"llo">>, finish |-> "stop"]>>,
                               !.usage = "u"]
         [] d = "J_err" -> [EmptyObj EXCEPT !.error = "rate_limited"]
         [] d = "J_nocontent" ->
              [EmptyObj EXCEPT !.choices = <<[content |-> <<>>, finish |-> ""]>>]]

\* json.loads(raw_data): None for JSONDecodeError.  Leading and trailing
\* whitespace is skipped; anything but exactly one document is an error.
JsonLoads(raw) ==
    LET t == Strip(raw) IN
    IF Len(t) = 1 /\ t[1] \in DOMAIN JsonTable THEN Some(JsonTable[t[1]]) ELSE None

-----------------------------------------------------------------------------
(* mission_stream_smoke.py: StreamStats and StreamWatcher.on_event *)

NewStreamStats ==
    [thinking_chunks |-> 0, text_deltas |-> 0, assistant_messages |-> 0,
     tool_calls |-> 0, tool_results |-> 0,
     assistant_models |-> {}, tool_call_ids |-> {}, tool_result_ids |-> {},
     errors |-> <<>>]

\* has_required_events reads the fields one after the other and returns False
\* at the first test that fails.  FailsAt(k, st, rt): its k-th read fails.
FailsAtLax(k, st, rt) ==
    CASE k = 1 -> st.assistant_messages < 1
      [] k = 2 -> st.text_deltas < 1
      [] k = 3 -> rt /\ st.thinking_chunks < 1
      [] k = 4 -> st.tool_calls < 1
      [] k = 5 -> st.tool_results < 1
      [] k = 6 -> (st.tool_call_ids \cap st.tool_result_ids) = {}

\* has_required_events with the thinking test made whatever require_thinking is
FailsAtAlwaysThinking(k, st, rt) ==
    CASE k = 1 -> st.assistant_messages < 2
      [] k = 2 -> st.text_deltas < 1
      [] k = 3 -> st.thinking_chunks < 1
      [] k = 4 -> st.tool_calls < 1
      [] k = 5 -> st.tool_results < 1
      [] k = 6 -> (st.tool_call_ids \cap st.tool_result_ids) = {}

FailsAt(k, st, rt) ==
    CASE k = 1 -> st.assistant_messages < 2
      [] k = 2 -> st.text_deltas < 1
      [] k = 3 -> rt /\ st.thinking_chunks < 1
      [] k = 4 -> st.tool_calls < 1
      [] k = 5 -> st.tool_results < 1
      [] k = 6 -> (st.tool_call_ids \cap st.tool_result_ids) = {}

NumReads == 6

has_required_events(st, rt) == \A k \in 1..NumReads : ~FailsAt(k, st, rt)

\* as RouteCount, but thinking and text_delta are counted whatever their content
RouteCountAnyContent(st, etype, p) ==
    IF etype = <<"thinking">>
    THEN [st EXCEPT !.thinking_chunks = @ + 1]
    ELSE IF etype = <<"text_delta">>
    THEN [st EXCEPT !.text_deltas = @ + 1]
    ELSE IF etype = <<"assistant_message">>
    THEN [st EXCEPT !.assistant_messages = @ + 1]
    ELSE IF etype = <<"tool_call">>
    THEN [st EXCEPT !.tool_calls = @ + 1]
    ELSE IF etype = <<"tool_result">>
    THEN [st EXCEPT !.tool_results = @ + 1]
    ELSE st

\* the counter statements of on_event's if/elif chain
RouteCount(st, etype, p) ==
    IF etype = <<"thinking">>
    THEN IF p.content # <<>>
         THEN [st EXCEPT !.thinking_chunks = @ + 1] ELSE st
    ELSE IF etype = <<"text_delta">>
    THEN IF p.content # <<>>
         THEN [st EXCEPT !.text_deltas = @ + 1] ELSE st
    ELSE IF etype = <<"assistant_message">>
    THEN [st EXCEPT !.assistant_messages = @ + 1]
    ELSE IF etype = <<"tool_call">>
    THEN [st EXCEPT !.tool_calls = @ + 1]
    ELSE IF etype = <<"tool_result">>
    THEN [st EXCEPT !.tool_results = @ + 1]
    ELSE st

\* the set statements that follow the counter statement of the same branch
RouteSetsSwapped(st, etype, p) ==
    IF etype = <<"assistant_message">>
    THEN IF p.model # None /\ Strip(p.model[1]) # <<>>
         THEN [st EXCEPT !.assistant_models = @ \cup {Strip(p.model[1])}] ELSE st
    ELSE IF etype = <<"tool_call">>
    THEN IF p.tool_call_id # ""
         THEN [st EXCEPT !.tool_call_ids = @ \cup {p.tool_call_id},
                         !.tool_result_ids = @ \cup {p.tool_call_id}] ELSE st
    ELSE IF etype = <<"tool_result">>
    THEN IF p.tool_call_id # ""
         THEN [st EXCEPT !.tool_result_ids = @ \cup {p.tool_call_id}] ELSE st
    ELSE st

RouteSets(st, etype, p) ==
    IF etype = <<"assistant_message">>
    THEN IF p.model # None /\ Strip(p.model[1]) # <<>>
         THEN [st EXCEPT !.assistant_models = @ \cup {Strip(p.model[1])}] ELSE st
    ELSE IF etype = <<"tool_call">>
    THEN IF p.tool_call_id # ""
         THEN [st EXCEPT !.tool_call_ids = @ \cup {p.tool_call_id}] ELSE st
    ELSE IF etype = <<"tool_result">>
    THEN IF p.tool_call_id # ""
         THEN [st EXCEPT !.tool_result_ids = @ \cup {p.tool_call_id}] ELSE st
    ELSE st

\* the if/elif chain of on_event for a decoded payload of this mission
StreamRoute(st, etype, p) == RouteSets(RouteCount(st, etype, p), etype, p)

\* on_event without the test of mission_id
StreamAcceptAnyMission(mission, raw) ==
    LET j == JsonLoads(raw) IN
    IF j = None THEN "drop"
    ELSE IF ~j[1].isobj THEN "raise"
    ELSE "route"

\* on_event up to the if/elif chain: "drop" (JSONDecodeError, or another
\* mission's event), "raise" (payload.get on a non-object), or "route"
StreamAccept(mission, raw) ==
    LET j == JsonLoads(raw) IN
    IF j = None THEN "drop"
    ELSE IF ~j[1].isobj THEN "raise"
    ELSE IF j[1].mission_id # "" /\ j[1].mission_id # mission THEN "drop"
    ELSE "route"

\* StreamWatcher.on_event; raised: payload.get on a non-object (AttributeError)
StreamOnEvent(st, mission, etype, raw) ==
    LET a == StreamAccept(mission, raw) IN
    IF a = "route"
    THEN [stats |-> StreamRoute(st, etype, JsonLoads(raw)[1]), raised |-> FALSE]
    ELSE [stats |-> st, raised |-> (a = "raise")]

-----------------------------------------------------------------------------
(* mission_browser_smoke.py: StreamStats and StreamWatcher.on_event *)

REQUIRED_TOOL_PREFIXES ==
    {"desktop_", "playwright_", "browser_", "mcp__desktop__", "mcp__playwright__"}

NewBrowserStats ==
    [assistant_messages |-> 0, tool_calls |-> 0, tool_results |-> 0,
     tool_names |-> {}, errors |-> <<>>]

saw_required_tool(st) ==
    \E name \in st.tool_names : name # <<>> /\ Head(name) \in REQUIRED_TOOL_PREFIXES

browser_ok(st) ==
    /\ st.assistant_messages >= 1
    /\ st.tool_calls >= 1
    /\ st.tool_results >= 1
    /\ saw_required_tool(st)

BrowserRoute(st, etype, p) ==
    IF etype = <<"assistant_message">>
    THEN [st EXCEPT !.assistant_messages = @ + 1]
    ELSE IF etype = <<"tool_call">>
    THEN [st EXCEPT !.tool_calls = @ + 1,
                    !.tool_names = IF p.name # <<>> THEN @ \cup {p.name} ELSE @]
    ELSE IF etype = <<"tool_result">>
    THEN [st EXCEPT !.tool_results = @ + 1]
    ELSE st

BrowserOnEvent(st, mission, etype, raw) ==
    LET j == JsonLoads(raw) IN
    IF j = None THEN [stats |-> st, raised |-> FALSE]
    ELSE IF ~j[1].isobj THEN [stats |-> st, raised |-> TRUE]
    ELSE IF j[1].mission_id # "" /\ j[1].mission_id # mission
    THEN [stats |-> st, raised |-> FALSE]
    ELSE [stats |-> BrowserRoute(st, etype, j[1]), raised |-> FALSE]

-----------------------------------------------------------------------------
(* proxy_smoke.py: StreamStats and on_sse_event *)

NewProxyStats ==
    [chunks |-> 0, content_deltas |-> <<>>, finish_reason |-> None,
     model |-> None, usage |-> None, errors |-> <<>>]

proxy_ok(st) ==
    IF st.chunks < 1 THEN FALSE
    ELSE IF st.content_deltas = <<>> THEN FALSE
    ELSE IF st.finish_reason = None THEN FALSE
    ELSE TRUE

RECURSIVE ProxyChoicesOverwrite(_, _)
\* as ProxyChoices, but finish_reason is assigned from every choice
ProxyChoicesOverwrite(st, choices) ==
    IF choices = <<>> THEN st
    ELSE LET c == Head(choices)
             s1 == IF c.content # <<>>
                   THEN [st EXCEPT !.content_deltas = Append(@, c.content)]
                   ELSE st
             s2 == [s1 EXCEPT !.finish_reason =
                                  IF c.finish # "" THEN Some(c.finish) ELSE None]
         IN ProxyChoicesOverwrite(s2, Tail(choices))

RECURSIVE ProxyChoices(_, _)
\* the "for choice in choices" loop
ProxyChoices(st, choices) ==
    IF choices = <<>> THEN st
    ELSE LET c == Head(choices)
             s1 == IF c.content # <<>>
                   THEN [st EXCEPT !.content_deltas = Append(@, c.content)]
                   ELSE st
             s2 == IF c.finish # ""
                   THEN [s1 EXCEPT !.finish_reason = Some(c.finish)]
                   ELSE s1
         IN ProxyChoices(s2, Tail(choices))

ProxyOnSseEvent(st, raw) ==
    IF raw = <<"[DONE]">> THEN [stats |-> st, raised |-> FALSE]
    ELSE LET j == JsonLoads(raw) IN
    IF j = None
    THEN [stats |-> [st EXCEPT !.errors = Append(@, "Invalid JSON")],
          raised |-> FALSE]
    ELSE IF ~j[1].isobj THEN [stats |-> st, raised |-> TRUE]
    ELSE IF j[1].error # ""
    THEN [stats |-> [st EXCEPT !.errors = Append(@, "API error")],
          raised |-> FALSE]
    ELSE LET p == j[1]
             s1 == [st EXCEPT !.chunks = @ + 1,
                              !.model = IF p.model # None /\ @ = None
                                        THEN p.model ELSE @]
             s2 == ProxyChoices(s1, p.choices)
             s3 == IF p.usage # "" THEN [s2 EXCEPT !.usage = Some(p.usage)] ELSE s2
         IN [stats |-> s3, raised |-> FALSE]

-----------------------------------------------------------------------------
(* The parser alone, fed every sequence of lines up to MaxLines *)

MaxLines == 5

Lines ==
    { <<>>,
      <<":", "keepalive">>,
      <<"event:", " ", "tool_call">>,
      <<"event:", "tool_result", " ">>,
      <<"event:", " ">>,
      <<"data:", " ", "J_x1", " ">>,
      <<"data:">>,
      <<"retry:", "5">> }

RunIdle ==
    /\ timeout = 0 /\ mpc = "none" /\ pk = 1 /\ mtimer = 0 /\ pdl = 0
    /\ queued_ok = FALSE /\ polled = "none" /\ verdict = "none"
    /\ stop_event = FALSE
    /\ wpc = "idle" /\ wtimer = 0 /\ wdl = 0 /\ wevent = None
    /\ sidx = 1 /\ opens = <<>> /\ drops = 0 /\ delivered = <<>> /\ late = 0

MainIdle ==
    /\ backend = 0 /\ bpc = "none" /\ results = <<>> /\ failed = FALSE
    /\ watchers = {} /\ tried = <<>> /\ raisedAt = <<>> /\ report = <<>>
    /\ exit_code = -1

ParserInit ==
    /\ event_type = None
    /\ data_lines = <<>>
    /\ input = <<>>
    /\ emitted = <<>>
    /\ emitAt = <<>>
    /\ pdone = FALSE
    /\ harness = "stream"
    /\ require_thinking = FALSE
    /\ stats = NewStreamStats
    /\ afterTrue = FALSE
    /\ RunIdle
    /\ MainIdle

\* readline() returned a line
ParseFeed(line) ==
    /\ ~pdone
    /\ Len(input) < MaxLines
    /\ LET r == ParseLine(event_type, data_lines, line) IN
        /\ event_type' = r.event_type
        /\ data_lines' = r.data_lines
        /\ emitted' = emitted \o r.emit
        /\ emitAt' = IF r.emit = <<>> THEN emitAt
                     ELSE Append(emitAt, Len(input) + 1)
    /\ input' = Append(input, line)
    /\ UNCHANGED <<bvars, pdone, svars, rvars>>

\* readline() returned b"": "if not line: break"
ParseEof ==
    /\ ~pdone
    /\ pdone' = TRUE
    /\ UNCHANGED <<bvars, event_type, data_lines, input, emitted, emitAt, svars, rvars>>

ParserNext ==
    \/ \E line \in Lines : ParseFeed(line)
    \/ ParseEof

SpecParser == ParserInit /\ [][ParserNext]_vars

-----------------------------------------------------------------------------
(* The three StreamStats under every sequence of routed events *)

MaxCount == 2

EventTypes ==
    { <<"thinking">>, <<"text_delta">>, <<"assistant_message">>,
      <<"tool_call">>, <<"tool_result">>, <<"status">> }

\* payload texts: the documents whose fields the harness reads, a non-object,
\* and text that is no JSON
StreamPayloads ==
    {<<d>> : d \in {"J_empty", "J_c", "J_m", "J_mblank", "J_x1", "J_x2",
                    "J_other", "J_mine", "J_num", "garbage"}}

BrowserPayloads ==
    {<<d>> : d \in {"J_empty", "J_x1", "J_x2", "J_other", "J_mine", "J_num",
                    "garbage"}}

ProxyPayloads ==
    {<<d>> : d \in {"J_empty", "J_chunk", "J_last", "J_err", "J_nocontent",
                    "J_num", "garbage", "[DONE]"}} \cup {<<>>}

\* the completion predicate of the harness that owns stats
Predicate ==
    CASE harness = "stream" -> has_required_events(stats, require_thinking)
      [] harness = "browser" -> browser_ok(stats)
      [] harness = "proxy" -> proxy_ok(stats)

StreamBounded(st) ==
    /\ st.thinking_chunks <= MaxCount /\ st.text_deltas <= MaxCount
    /\ st.assistant_messages <= MaxCount
    /\ st.tool_calls <= MaxCount /\ st.tool_results <= MaxCount

BrowserBounded(st) ==
    /\ st.assistant_messages <= MaxCount
    /\ st.tool_calls <= MaxCount /\ st.tool_results <= MaxCount

ProxyBounded(st) ==
    /\ st.chunks <= MaxCount
    /\ Len(st.content_deltas) <= MaxCount
    /\ Len(st.errors) <= MaxCount

StatsInit ==
    /\ event_type = None
    /\ data_lines = <<>>
    /\ input = <<>>
    /\ emitted = <<>>
    /\ emitAt = <<>>
    /\ pdone = FALSE
    /\ \/ harness = "stream" /\ require_thinking \in BOOLEAN
          /\ stats = NewStreamStats
       \/ harness = "browser" /\ require_thinking = FALSE
          /\ stats = NewBrowserStats
       \/ harness = "proxy" /\ require_thinking = FALSE
          /\ stats = NewProxyStats
    /\ afterTrue = FALSE
    /\ RunIdle
    /\ MainIdle

StatsRouteStream(etype, raw) ==
    /\ harness = "stream"
    /\ LET r == StreamOnEvent(stats, MissionId, etype, raw) IN
        /\ StreamBounded(r.stats)
        /\ stats' = r.stats
    /\ afterTrue' = (afterTrue \/ Predicate)
    /\ UNCHANGED <<bvars, pvars, harness, require_thinking, rvars>>

StatsRouteBrowser(etype, raw) ==
    /\ harness = "browser"
    /\ LET r == BrowserOnEvent(stats, MissionId, etype, raw) IN
        /\ BrowserBounded(r.stats)
        /\ stats' = r.stats
    /\ afterTrue' = (afterTrue \/ Predicate)
    /\ UNCHANGED <<bvars, pvars, harness, require_thinking, rvars>>

StatsRouteProxy(etype, raw) ==
    /\ harness = "proxy"
    /\ LET r == ProxyOnSseEvent(stats, raw) IN
        /\ ProxyBounded(r.stats)
        /\ stats' = r.stats
    /\ afterTrue' = (afterTrue \/ Predicate)
    /\ UNCHANGED <<bvars, pvars, harness, require_thinking, rvars>>

\* a call of stats.has_required_events(require_thinking), as run_backend and
\* main make it; polled keeps what it returned
StatsPollStream ==
    /\ harness = "stream"
    /\ polled' = IF has_required_events(stats, require_thinking)
                 THEN "true" ELSE "false"
    /\ UNCHANGED <<bvars, pvars, svars, timeout, mpc, pk, mtimer, pdl, queued_ok,
                   verdict, stop_event, wvars, evars>>

StatsNext ==
    \/ \E etype \in EventTypes, raw \in StreamPayloads : StatsRouteStream(etype, raw)
    \/ \E etype \in EventTypes, raw \in BrowserPayloads : StatsRouteBrowser(etype, raw)
    \/ \E etype \in EventTypes, raw \in ProxyPayloads : StatsRouteProxy(etype, raw)
    \/ StatsPollStream

SpecStats == StatsInit /\ [][StatsNext]_vars

-----------------------------------------------------------------------------
(* C2 *)

\* C2: each completion predicate (has_required_events, the browser ok, the
\* proxy ok) is false on a freshly created stats object, and once it is true
\* it stays true whatever further events are routed.
C2_PredicateFalseThenMonotone ==
    /\ ~Predicate
    /\ [][Predicate => Predicate']_vars

\* the stream predicate holds and events were routed after it first held
C2_Witness ==
    /\ harness = "stream"
    /\ afterTrue
    /\ Predicate
    /\ stats.tool_results = 2

-----------------------------------------------------------------------------
(* C1 *)

Max(S) == CHOOSE x \in S : \A y \in S : y <= x

\* the first line of the group that the line at index i belongs to
GroupStart(in, i) ==
    LET blanks == {j \in 1..(i - 1) : in[j] = <<>>} IN
    IF blanks = {} THEN 1 ELSE Max(blanks) + 1

LabelIdx(in, i) == {j \in GroupStart(in, i)..(i - 1) : StartsWith(in[j], "event:")}

DataIdx(in, i) == {j \in GroupStart(in, i)..(i - 1) : StartsWith(in[j], "data:")}

RECURSIVE ValuesAt(_, _, _)
\* the stripped values of the lines of in at the indices of S from k on, in order
ValuesAt(in, S, k) ==
    IF k > Len(in) THEN <<>>
    ELSE (IF k \in S THEN <<Strip(Tail(in[k]))>> ELSE <<>>) \o ValuesAt(in, S, k + 1)

\* the blank line at index i closes a group with a non-empty label and data
Complete(in, i) ==
    /\ in[i] = <<>>
    /\ DataIdx(in, i) # {}
    /\ LabelIdx(in, i) # {}
    /\ Strip(Tail(in[Max(LabelIdx(in, i))])) # <<>>

GroupEvent(in, i) ==
    [type |-> Strip(Tail(in[Max(LabelIdx(in, i))])),
     data |-> JoinNl(ValuesAt(in, DataIdx(in, i), 1))]

RECURSIVE SortedSeq(_)
SortedSeq(S) ==
    IF S = {} THEN <<>>
    ELSE LET m == CHOOSE x \in S : \A y \in S : x <= y
         IN <<m>> \o SortedSeq(S \ {m})

\* C1: the parser has emitted exactly one event at every blank line that closed
\* a group holding a (non-empty) label and at least one data line, carrying the
\* most recent label and the data values joined by newline in arrival order,
\* and has emitted nothing at any other line.
C1_ExactlyOnePerCompleteGroup ==
    LET at == SortedSeq({i \in 1..Len(input) : Complete(input, i)}) IN
    /\ emitAt = at
    /\ Len(emitted) = Len(at)
    /\ \A k \in 1..Len(at) : emitted[k] = GroupEvent(input, at[k])

\* two groups in one stream, the second with two data lines
C1_Witness ==
    /\ Len(emitted) >= 1
    /\ \E k \in 1..Len(emitted) : \E j \in 1..Len(emitted[k].data) :
          emitted[k].data[j] = "\n"
    /\ \E i \in 1..Len(input) : input[i] = <<>> /\ ~Complete(input, i)

-----------------------------------------------------------------------------
(* One backend run: run_backend, its StreamWatcher thread and the verdict.   *)
(* Time advances in ticks of half a second; a thread that is not blocked in  *)
(* a sleep, a join or an I/O call takes its steps before time advances.      *)

TicksPerSecond == 2

BACKOFF_S == 1

STREAM_TIMEOUT_S == 5

JOIN_TIMEOUT_S == 5

\* time.sleep(0.5)
PollSleep == TicksPerSecond \div 2

Backoff == BACKOFF_S * TicksPerSecond

\* timeout=5 of open_sse_stream: the connect, and then every read of the socket
OpenTimeout == STREAM_TIMEOUT_S * TicksPerSecond

ReadTimeout == STREAM_TIMEOUT_S * TicksPerSecond

JoinTimeout == JOIN_TIMEOUT_S * TicksPerSecond

\* the values of --timeout that are tried: 2 and 3 seconds
Timeouts == {2 * TicksPerSecond, 3 * TicksPerSecond}

\* the longest a stimulus request takes to be answered, in ticks
HttpMax == 1

\* how many open attempts the server lets fail, and how many connections it
\* ends (by closing or by a reset), in one run
MaxOpenFails == 2

MaxDrops == 1

Frame(etype, doc) == << <<"event:", " ", etype>>, <<"data:", " ", doc>>, <<>> >>

\* what the server sends for the mission
Script ==
    Frame("assistant_message", "J_m") \o Frame("tool_call", "J_x1")
    \o Frame("text_delta", "J_c") \o Frame("thinking", "J_c")
    \o Frame("tool_result", "J_mine") \o Frame("assistant_message", "J_empty")

\* the server sends the lines of one event together: between two events the
\* watcher may have to wait, within an event the next line is there
BetweenEvents ==
    IF sidx = 1 \/ sidx > Len(Script) THEN TRUE ELSE Script[sidx - 1] = <<>>

\* a new connection starts at an event: what was left of an event the old
\* connection was cut in is not sent again
RECURSIVE NextFrame(_)
NextFrame(i) ==
    IF i = 1 \/ i > Len(Script) THEN i
    ELSE IF Script[i - 1] = <<>> THEN i ELSE NextFrame(i + 1)

NumFails == Cardinality({i \in 1..Len(opens) : opens[i] = "fail"})

\* the except clause of StreamWatcher.run: self.stats.errors.append(str(exc))
RunExceptReplace(st, msg) == [st EXCEPT !.errors = <<msg>>]

RunExcept(st, msg) == [st EXCEPT !.errors = Append(@, msg)]

\* the locals of parse_sse as a call starts
ParseEntryKeep(et, dl) == [event_type |-> et, data_lines |-> dl]

ParseEntry(et, dl) == [event_type |-> None, data_lines |-> <<>>]

\* as VerdictOk, but a stats object with logged errors is never OK
VerdictOkNoErrors(st, rt, q, allow_missing_model, expected) ==
    LET model_ok == allow_missing_model \/ st.assistant_models # {}
        expected_ok ==
            IF expected # ""
            THEN \E m \in st.assistant_models : \E i \in 1..Len(m) : m[i] = expected
            ELSE TRUE
    IN has_required_events(st, rt) /\ st.errors = <<>> /\ q /\ model_ok /\ expected_ok

\* the verdict of main for one result
VerdictOk(st, rt, q, allow_missing_model, expected) ==
    LET model_ok == allow_missing_model \/ st.assistant_models # {}
        expected_ok ==
            IF expected # ""
            THEN \E m \in st.assistant_models : \E i \in 1..Len(m) : m[i] = expected
            ELSE TRUE
    IN has_required_events(st, rt) /\ q /\ model_ok /\ expected_ok

RunInit ==
    /\ event_type = None
    /\ data_lines = <<>>
    /\ input = <<>>
    /\ emitted = <<>>
    /\ emitAt = <<>>
    /\ pdone = FALSE
    /\ harness = "stream"
    /\ require_thinking \in BOOLEAN
    /\ stats = NewStreamStats
    /\ afterTrue = FALSE
    /\ timeout \in Timeouts
    /\ mpc = "create" /\ pk = 1 /\ mtimer = 0 /\ pdl = 0
    /\ queued_ok = FALSE /\ polled = "none" /\ verdict = "none"
    /\ stop_event = FALSE
    /\ wpc = "idle" /\ wtimer = 0 /\ wdl = 0 /\ wevent = None
    /\ sidx = 1 /\ opens = <<>> /\ drops = 0 /\ delivered = <<>> /\ late = 0
    /\ MainIdle

Listening == wpc \in {"parse", "read", "route2"}

Connecting == wpc \in {"loop", "open", "backoff"}

Stopped == wpc = "done"

---- (* run_backend *)

\* POST /api/control/missions, and the check of its id (lines 227-230)
MCreate(ok) ==
    /\ mpc = "create"
    /\ mpc' = IF ok THEN "load" ELSE "raised"
    /\ UNCHANGED <<bvars, pvars, svars, timeout, pk, mtimer, pdl, queued_ok, polled,
                   verdict, stop_event, wvars, evars>>

\* POST .../load (line 232)
MLoad(ok) ==
    /\ mpc = "load"
    /\ mpc' = IF ok THEN "start" ELSE "raised"
    /\ UNCHANGED <<bvars, pvars, svars, timeout, pk, mtimer, pdl, queued_ok, polled,
                   verdict, stop_event, wvars, evars>>

\* as MStart, but without watcher.start()
MStartNoWatcher ==
    /\ mpc = "start"
    /\ mpc' = "msg1"
    /\ mtimer' = HttpMax
    /\ UNCHANGED <<bvars, pvars, svars, timeout, pk, pdl, queued_ok, polled, verdict,
                   stop_event, wvars, evars>>

\* stats, stop_event, watcher.start() (lines 234-246); the thread computes its
\* deadline as it starts (line 154); then the first request is sent (line 259)
MStart ==
    /\ mpc = "start"
    /\ wpc' = "loop"
    /\ wdl' = timeout
    /\ mpc' = "msg1"
    /\ mtimer' = HttpMax
    /\ UNCHANGED <<bvars, pvars, svars, timeout, pk, pdl, queued_ok, polled, verdict,
                   stop_event, wtimer, wevent, evars>>

\* the answer to the first message; the second is sent (lines 259-262)
MMsg1(ok) ==
    /\ mpc = "msg1"
    /\ mpc' = IF ok THEN "msg2" ELSE "raised"
    /\ mtimer' = IF ok THEN HttpMax ELSE 0
    /\ UNCHANGED <<bvars, pvars, svars, timeout, pk, pdl, queued_ok, polled, verdict,
                   stop_event, wvars, evars>>

\* the answer to the second message, queued_ok and the deadline (lines 260-265)
MMsg2(ok, q) ==
    /\ mpc = "msg2"
    /\ mtimer' = 0
    /\ IF ok
       THEN mpc' = "poll" /\ queued_ok' = q /\ pdl' = timeout
       ELSE mpc' = "raised" /\ UNCHANGED <<queued_ok, pdl>>
    /\ UNCHANGED <<bvars, pvars, svars, timeout, pk, polled, verdict, stop_event,
                   wvars, evars>>

\* "while time.time() < deadline" (line 266)
MPollLoop ==
    /\ mpc = "poll"
    /\ IF pdl = 0
       THEN mpc' = "stop" /\ polled' = "deadline"
       ELSE mpc' = "check" /\ UNCHANGED polled
    /\ pk' = 1
    /\ UNCHANGED <<bvars, pvars, svars, timeout, mtimer, pdl, queued_ok, verdict,
                   stop_event, wvars, evars>>

\* one read of has_required_events (line 267), then break or sleep (268-269)
MPollRead ==
    /\ mpc = "check"
    /\ IF FailsAt(pk, stats, require_thinking)
       THEN mpc' = "psleep" /\ mtimer' = PollSleep /\ pk' = 1 /\ UNCHANGED polled
       ELSE IF pk = NumReads
       THEN mpc' = "stop" /\ polled' = "true" /\ pk' = 1 /\ UNCHANGED mtimer
       ELSE pk' = pk + 1 /\ UNCHANGED <<mpc, mtimer, polled>>
    /\ UNCHANGED <<bvars, pvars, svars, timeout, pdl, queued_ok, verdict, stop_event,
                   wvars, evars>>

\* time.sleep(0.5) returns
MPollWake ==
    /\ mpc = "psleep"
    /\ mtimer = 0
    /\ mpc' = "poll"
    /\ UNCHANGED <<bvars, pvars, svars, timeout, pk, mtimer, pdl, queued_ok, polled,
                   verdict, stop_event, wvars, evars>>

\* stop_event.set(); watcher.join(timeout=5) starts (lines 271-272)
MStop ==
    /\ mpc = "stop"
    /\ stop_event' = TRUE
    /\ mpc' = "join"
    /\ mtimer' = JoinTimeout
    /\ UNCHANGED <<bvars, pvars, svars, timeout, pk, pdl, queued_ok, polled, verdict,
                   wvars, evars>>

\* as MJoin, but watcher.join() without a timeout
MJoinUnbounded ==
    /\ mpc = "join"
    /\ wpc = "done"
    /\ mpc' = "returned"
    /\ mtimer' = 0
    /\ UNCHANGED <<bvars, pvars, svars, timeout, pk, pdl, queued_ok, polled, verdict,
                   stop_event, wvars, evars>>

\* join returns: the thread ended, or the 5 seconds are over; return (line 274)
MJoin ==
    /\ mpc = "join"
    /\ wpc = "done" \/ mtimer = 0
    /\ mpc' = "returned"
    /\ mtimer' = 0
    /\ UNCHANGED <<bvars, pvars, svars, timeout, pk, pdl, queued_ok, polled, verdict,
                   stop_event, wvars, evars>>

\* main's second loop, for this result (lines 375-391)
MVerdict(allow_missing_model, expected) ==
    /\ mpc = "returned"
    /\ verdict' = IF VerdictOk(stats, require_thinking, queued_ok,
                               allow_missing_model, expected)
                  THEN "OK" ELSE "FAIL"
    /\ mpc' = "reported"
    /\ UNCHANGED <<bvars, pvars, svars, timeout, pk, mtimer, pdl, queued_ok, polled,
                   stop_event, wvars, evars>>

---- (* StreamWatcher.run and parse_sse *)

\* the watcher is a daemon thread: it runs until the process exits, which it
\* does once main has reported, or has caught what run_backend raised
ProcessRuns == mpc \notin {"reported", "raised"}

\* "while not self.stop_event.is_set() and time.time() < deadline" (line 155)
WLoop ==
    /\ ProcessRuns
    /\ wpc = "loop"
    /\ IF stop_event \/ wdl = 0
       THEN wpc' = "done" /\ wtimer' = 0
       ELSE wpc' = "open" /\ wtimer' = OpenTimeout
    /\ UNCHANGED <<bvars, pvars, svars, mvars, wdl, wevent, evars>>

\* open_sse_stream returns a stream (the server answers at once or not at
\* all); parse_sse is entered (lines 157-162, 105-106)
WOpenOk ==
    /\ ProcessRuns
    /\ wpc = "open"
    /\ wtimer = OpenTimeout
    /\ wpc' = "parse"
    /\ wtimer' = 0
    /\ LET e == ParseEntry(event_type, data_lines) IN
        /\ event_type' = e.event_type
        /\ data_lines' = e.data_lines
    /\ input' = <<>>
    /\ sidx' = NextFrame(sidx)
    /\ opens' = Append(opens, "ok")
    /\ UNCHANGED <<bvars, emitted, emitAt, pdone, svars, mvars, wdl, wevent, drops,
                   delivered, late>>

\* as WOpenFail, but the exception is not caught in the loop: it ends run
WOpenFailFatal ==
    /\ ProcessRuns
    /\ wpc = "open"
    /\ wtimer \in {OpenTimeout, 0}
    /\ NumFails < MaxOpenFails
    /\ stats' = RunExcept(stats, "open failed")
    /\ wpc' = "done"
    /\ wtimer' = 0
    /\ opens' = Append(opens, "fail")
    /\ UNCHANGED <<bvars, pvars, harness, require_thinking, afterTrue, mvars, wdl,
                   wevent, sidx, drops, delivered, late>>

\* open_sse_stream raises, at once (refused, HTTP error) or when its 5 seconds
\* are over; the except clause, and time.sleep(1) starts (lines 163-165)
WOpenFail ==
    /\ ProcessRuns
    /\ wpc = "open"
    /\ wtimer \in {OpenTimeout, 0}
    /\ NumFails < MaxOpenFails
    /\ stats' = RunExcept(stats, "open failed")
    /\ wpc' = "backoff"
    /\ wtimer' = Backoff
    /\ opens' = Append(opens, "fail")
    /\ UNCHANGED <<bvars, pvars, harness, require_thinking, afterTrue, mvars, wdl,
                   wevent, sidx, drops, delivered, late>>

\* "while not stop_event.is_set()" of parse_sse (line 107); leaving the loop
\* returns to run, which closes the stream
WParse ==
    /\ ProcessRuns
    /\ wpc = "parse"
    /\ IF stop_event
       THEN wpc' = "loop" /\ wtimer' = 0
       ELSE wpc' = "read" /\ wtimer' = ReadTimeout
    /\ UNCHANGED <<bvars, pvars, svars, mvars, wdl, wevent, evars>>

\* readline returns a line: one pass of the loop body (lines 109-128), and
\* on_event up to its counter statement (lines 168-193)
WReadLine ==
    /\ ProcessRuns
    /\ wpc = "read"
    /\ sidx <= Len(Script)
    /\ LET line == Script[sidx]
           r == ParseLine(event_type, data_lines, line)
           in2 == Append(input, line)
           acc == IF r.emit = <<>> THEN "none"
                  ELSE StreamAccept(MissionId, r.emit[1].data)
       IN
        /\ event_type' = r.event_type
        /\ data_lines' = r.data_lines
        /\ emitted' = emitted \o r.emit
        /\ input' = IF line = <<>> THEN <<>> ELSE in2
        /\ delivered' = IF Complete(in2, Len(in2))
                        THEN Append(delivered, GroupEvent(in2, Len(in2)))
                        ELSE delivered
        /\ CASE acc = "route" ->
                  /\ stats' = RouteCount(stats, r.emit[1].type,
                                         JsonLoads(r.emit[1].data)[1])
                  /\ wevent' = Some(r.emit[1])
                  /\ wpc' = "route2"
                  /\ wtimer' = 0
             [] acc = "raise" ->
                  /\ stats' = RunExcept(stats, "AttributeError")
                  /\ wevent' = None
                  /\ wpc' = "backoff"
                  /\ wtimer' = Backoff
             [] OTHER ->
                  /\ wpc' = "parse"
                  /\ wtimer' = 0
                  /\ UNCHANGED <<stats, wevent>>
    /\ sidx' = sidx + 1
    /\ UNCHANGED <<bvars, emitAt, pdone, harness, require_thinking, afterTrue, mvars,
                   wdl, opens, drops, late>>

\* the set statement of the branch on_event took (lines 183-195)
WRoute2 ==
    /\ ProcessRuns
    /\ wpc = "route2"
    /\ stats' = RouteSets(stats, wevent[1].type, JsonLoads(wevent[1].data)[1])
    /\ wevent' = None
    /\ wpc' = "parse"
    /\ UNCHANGED <<bvars, pvars, harness, require_thinking, afterTrue, mvars, wtimer,
                   wdl, evars>>

\* as WReadTimeout, but socket.timeout is not caught in parse_sse: it reaches
\* the except clause of run
WReadTimeoutDisconnects ==
    /\ ProcessRuns
    /\ wpc = "read"
    /\ wtimer = 0
    /\ stats' = RunExcept(stats, "timed out")
    /\ wpc' = "backoff"
    /\ wtimer' = Backoff
    /\ UNCHANGED <<bvars, pvars, harness, require_thinking, afterTrue, mvars, wdl,
                   wevent, evars>>

\* readline raises socket.timeout: "continue" (lines 110-111)
WReadTimeout ==
    /\ ProcessRuns
    /\ wpc = "read"
    /\ wtimer = 0
    /\ wpc' = "parse"
    /\ UNCHANGED <<bvars, pvars, svars, mvars, wtimer, wdl, wevent, evars>>

\* readline returns b"" (the server closed): "break" (lines 112-113)
WReadEof ==
    /\ ProcessRuns
    /\ wpc = "read"
    /\ drops < MaxDrops
    /\ drops' = drops + 1
    /\ wpc' = "loop"
    /\ wtimer' = 0
    /\ UNCHANGED <<bvars, pvars, svars, mvars, wdl, wevent, sidx, opens, delivered, late>>

\* readline raises another exception (the connection was reset)
WReadError ==
    /\ ProcessRuns
    /\ wpc = "read"
    /\ drops < MaxDrops
    /\ drops' = drops + 1
    /\ stats' = RunExcept(stats, "read failed")
    /\ wpc' = "backoff"
    /\ wtimer' = Backoff
    /\ UNCHANGED <<bvars, pvars, harness, require_thinking, afterTrue, mvars, wdl,
                   wevent, sidx, opens, delivered, late>>

\* time.sleep(1) returns (line 165)
WBackoffWake ==
    /\ ProcessRuns
    /\ wpc = "backoff"
    /\ wtimer = 0
    /\ wpc' = "loop"
    /\ UNCHANGED <<bvars, pvars, svars, mvars, wtimer, wdl, wevent, evars>>

---- (* time *)

Dec(n) == IF n > 0 THEN n - 1 ELSE 0

MainWaits ==
    \/ mpc \in {"msg1", "msg2", "psleep"} /\ mtimer > 0
    \/ mpc = "join" /\ mtimer > 0 /\ wpc # "done"
    \/ mpc = "away"

WatcherWaits ==
    \/ wpc \in {"idle", "done"}
    \/ wpc = "backoff" /\ wtimer > 0
    \/ wpc = "open" /\ wtimer > 0 /\ NumFails < MaxOpenFails
    \/ wpc = "read" /\ wtimer > 0 /\ BetweenEvents

Tick ==
    /\ MainWaits
    /\ WatcherWaits
    /\ mtimer' = Dec(mtimer)
    /\ wtimer' = Dec(wtimer)
    /\ wdl' = Dec(wdl)
    /\ pdl' = Dec(pdl)
    /\ late' = IF mpc \in {"psleep", "join"} /\ pdl = 0 THEN late + 1 ELSE late
    /\ UNCHANGED <<bvars, pvars, svars, timeout, mpc, pk, queued_ok, polled, verdict,
                   stop_event, wpc, wevent, sidx, opens, drops, delivered>>

\* the steps of the watcher on a stream that stays up once it is open
WatcherSteps ==
    \/ WLoop
    \/ WOpenOk
    \/ WOpenFail
    \/ WParse
    \/ WReadLine
    \/ WRoute2
    \/ WReadTimeout
    \/ WBackoffWake

RunNext ==
    \/ \E ok \in BOOLEAN : MCreate(ok)
    \/ \E ok \in BOOLEAN : MLoad(ok)
    \/ MStart
    \/ \E ok \in BOOLEAN : MMsg1(ok)
    \/ \E ok \in BOOLEAN, q \in BOOLEAN : MMsg2(ok, q)
    \/ MPollLoop
    \/ MPollRead
    \/ MPollWake
    \/ MStop
    \/ MJoin
    \/ \E a \in BOOLEAN, x \in {"", "m1", "zz"} : MVerdict(a, x)
    \/ WatcherSteps
    \/ Tick

SpecRun == RunInit /\ [][RunNext]_vars

-----------------------------------------------------------------------------
(* The StreamWatcher thread on its own, on a stream that the server may end: *)
(* its owner is elsewhere and sets the stop event at any time, or never.     *)

WatchInit ==
    /\ event_type = None
    /\ data_lines = <<>>
    /\ input = <<>>
    /\ emitted = <<>>
    /\ emitAt = <<>>
    /\ pdone = FALSE
    /\ harness = "stream"
    /\ require_thinking = FALSE
    /\ stats = NewStreamStats
    /\ afterTrue = FALSE
    /\ timeout \in Timeouts
    /\ mpc = "away" /\ pk = 1 /\ mtimer = 0 /\ pdl = 0
    /\ queued_ok = FALSE /\ polled = "none" /\ verdict = "none"
    /\ stop_event = FALSE
    /\ wpc = "loop" /\ wtimer = 0 /\ wdl = timeout /\ wevent = None
    /\ sidx = 1 /\ opens = <<>> /\ drops = 0 /\ delivered = <<>> /\ late = 0
    /\ MainIdle

\* stop_event.set() (line 271), seen from the thread
StopSignal ==
    /\ mpc = "away"
    /\ ~stop_event
    /\ stop_event' = TRUE
    /\ UNCHANGED <<bvars, pvars, svars, timeout, mpc, pk, mtimer, pdl, queued_ok,
                   polled, verdict, wvars, evars>>

WatcherNext ==
    \/ WatcherSteps
    \/ WReadEof
    \/ WReadError

WatchNext ==
    \/ StopSignal
    \/ WatcherNext
    \/ Tick

\* the thread is scheduled, and time passes
SpecWatch ==
    /\ WatchInit
    /\ [][WatchNext]_vars
    /\ WF_vars(WatcherNext)
    /\ WF_vars(Tick)

-----------------------------------------------------------------------------
(* main: the loop over the backends, the verdict loop and the exit status.   *)
(* run_backend is followed call by call; what its watcher and its polling    *)
(* loop leave in the stats is an input of the step that returns.             *)

NumBackends == 2

Backends == 1..NumBackends

\* the events of Script, as parse_sse yields them
ScriptEvents == [k \in 1..(Len(Script) \div 3) |-> GroupEvent(Script, 3 * k)]

RECURSIVE RoutedAll(_, _)
\* the stats after on_event was called for each event of evs, in order
RoutedAll(st, evs) ==
    IF evs = <<>> THEN st
    ELSE RoutedAll(StreamOnEvent(st, MissionId, Head(evs).type, Head(evs).data).stats,
                   Tail(evs))

RECURSIVE BrowserRoutedAll(_, _)
BrowserRoutedAll(st, evs) ==
    IF evs = <<>> THEN st
    ELSE BrowserRoutedAll(
             BrowserOnEvent(st, MissionId, Head(evs).type, Head(evs).data).stats,
             Tail(evs))

\* the stats a run can end with: nothing seen, nothing seen and a failed open,
\* and every event of Script routed
FinalStats(h) ==
    IF h = "stream"
    THEN {NewStreamStats,
          RunExcept(NewStreamStats, "open failed"),
          RoutedAll(NewStreamStats, ScriptEvents)}
    ELSE {NewBrowserStats,
          [NewBrowserStats EXCEPT !.errors = <<"open failed">>],
          BrowserRoutedAll(NewBrowserStats, ScriptEvents)}

AssistantTexts == {"", "title: Example Domain"}

\* the line main prints about a backend
FailedLine(b) == [backend |-> b, kind |-> "FAILED to run", passed |-> FALSE, stats |-> None]

VerdictLine(b, ok, st) == [backend |-> b, kind |-> "verdict", passed |-> ok, stats |-> Some(st)]

MainInit ==
    /\ event_type = None
    /\ data_lines = <<>>
    /\ input = <<>>
    /\ emitted = <<>>
    /\ emitAt = <<>>
    /\ pdone = FALSE
    /\ harness \in {"stream", "browser"}
    /\ require_thinking \in (IF harness = "stream" THEN BOOLEAN ELSE {FALSE})
    /\ stats = IF harness = "stream" THEN NewStreamStats ELSE NewBrowserStats
    /\ afterTrue = FALSE
    /\ RunIdle
    /\ backend = 0 /\ bpc = "for" /\ results = <<>> /\ failed = FALSE
    /\ watchers = {} /\ tried = <<>> /\ raisedAt = [b \in Backends |-> ""]
    /\ report = <<>> /\ exit_code = -1

\* "for backend in backends": the next backend and the call of run_backend,
\* or the end of the loop
MainFor ==
    /\ bpc = "for"
    /\ IF backend < NumBackends
       THEN /\ backend' = backend + 1
            /\ tried' = Append(tried, backend + 1)
            /\ bpc' = "create"
       ELSE /\ bpc' = "verdicts"
            /\ UNCHANGED <<backend, tried>>
    /\ UNCHANGED <<pvars, svars, rvars, results, failed, watchers, raisedAt,
                   report, exit_code>>

\* a call of run_backend that raises: the exception reaches main's try
Raise(step) ==
    /\ raisedAt' = [raisedAt EXCEPT ![backend] = step]
    /\ bpc' = "except"

\* the create request and the check of its id
RbCreate(ok) ==
    /\ bpc = "create"
    /\ IF ok THEN bpc' = "load" /\ UNCHANGED raisedAt ELSE Raise("create")
    /\ UNCHANGED <<pvars, svars, rvars, backend, results, failed, watchers,
                   tried, report, exit_code>>

\* the load request
RbLoad(ok) ==
    /\ bpc = "load"
    /\ IF ok THEN bpc' = "start" /\ UNCHANGED raisedAt ELSE Raise("load")
    /\ UNCHANGED <<pvars, svars, rvars, backend, results, failed, watchers,
                   tried, report, exit_code>>

\* watcher.start()
RbStart ==
    /\ bpc = "start"
    /\ watchers' = watchers \cup {backend}
    /\ bpc' = "msg1"
    /\ UNCHANGED <<pvars, svars, rvars, backend, results, failed, tried,
                   raisedAt, report, exit_code>>

\* the message request (of the stream harness: the first of two)
RbMsg1(ok) ==
    /\ bpc = "msg1"
    /\ IF ok
       THEN /\ bpc' = IF harness = "stream" THEN "msg2" ELSE "poll"
            /\ UNCHANGED raisedAt
       ELSE Raise("msg1")
    /\ UNCHANGED <<pvars, svars, rvars, backend, results, failed, watchers,
                   tried, report, exit_code>>

\* the second message request of the stream harness
RbMsg2(ok) ==
    /\ bpc = "msg2"
    /\ IF ok THEN bpc' = "poll" /\ UNCHANGED raisedAt ELSE Raise("msg2")
    /\ UNCHANGED <<pvars, svars, rvars, backend, results, failed, watchers,
                   tried, report, exit_code>>

\* the polling loop, stop_event.set() and watcher.join(timeout=5): none raises
RbPollJoin ==
    /\ bpc = "poll"
    /\ bpc' = IF harness = "browser" THEN "fetch" ELSE "return"
    /\ UNCHANGED <<pvars, svars, rvars, backend, results, failed, watchers,
                   tried, raisedAt, report, exit_code>>

\* fetch_latest_assistant_text of the browser harness
RbFetch(ok) ==
    /\ bpc = "fetch"
    /\ IF ok THEN bpc' = "return" /\ UNCHANGED raisedAt ELSE Raise("fetch")
    /\ UNCHANGED <<pvars, svars, rvars, backend, results, failed, watchers,
                   tried, report, exit_code>>

\* "return MissionResult(...)" and main's results.append(result)
RbReturn(st, q, text) ==
    /\ bpc = "return"
    /\ results' = Append(results, [backend |-> backend, stats |-> st,
                                   queued_ok |-> q, assistant_text |-> text])
    /\ bpc' = "for"
    /\ UNCHANGED <<pvars, svars, rvars, backend, failed, watchers, tried,
                   raisedAt, report, exit_code>>

\* "except Exception as exc": failed = True, the print, "continue"
MainExceptBreak ==
    /\ bpc = "except"
    /\ failed' = TRUE
    /\ report' = Append(report, FailedLine(backend))
    /\ bpc' = "verdicts"
    /\ UNCHANGED <<pvars, svars, rvars, backend, results, watchers, tried,
                   raisedAt, exit_code>>

MainExcept ==
    /\ bpc = "except"
    /\ failed' = TRUE
    /\ report' = Append(report, FailedLine(backend))
    /\ bpc' = "for"
    /\ UNCHANGED <<pvars, svars, rvars, backend, results, watchers, tried,
                   raisedAt, exit_code>>

NumVerdicts == Cardinality({i \in 1..Len(report) : report[i].kind = "verdict"})

\* "ok" of the browser harness
BrowserVerdictOk(st, text, allow_nonexample) ==
    browser_ok(st) /\ (allow_nonexample \/ text = "title: Example Domain")

\* one pass of "for result in results"
MainVerdictLast(allow, expected) ==
    /\ bpc = "verdicts"
    /\ NumVerdicts < Len(results)
    /\ LET r == results[NumVerdicts + 1]
           ok == IF harness = "stream"
                 THEN VerdictOk(r.stats, require_thinking, r.queued_ok, allow, expected)
                 ELSE BrowserVerdictOk(r.stats, r.assistant_text, allow)
       IN /\ failed' = ~ok
          /\ report' = Append(report, VerdictLine(r.backend, ok, r.stats))
    /\ UNCHANGED <<pvars, svars, rvars, backend, bpc, results, watchers, tried,
                   raisedAt, exit_code>>

MainVerdict(allow, expected) ==
    /\ bpc = "verdicts"
    /\ NumVerdicts < Len(results)
    /\ LET r == results[NumVerdicts + 1]
           ok == IF harness = "stream"
                 THEN VerdictOk(r.stats, require_thinking, r.queued_ok, allow, expected)
                 ELSE BrowserVerdictOk(r.stats, r.assistant_text, allow)
       IN /\ failed' = (failed \/ ~ok)
          /\ report' = Append(report, VerdictLine(r.backend, ok, r.stats))
    /\ UNCHANGED <<pvars, svars, rvars, backend, bpc, results, watchers, tried,
                   raisedAt, exit_code>>

\* "if failed: sys.exit(1)", or the end of main
MainExit ==
    /\ bpc = "verdicts"
    /\ NumVerdicts = Len(results)
    /\ exit_code' = IF failed THEN 1 ELSE 0
    /\ bpc' = "exited"
    /\ UNCHANGED <<pvars, svars, rvars, backend, results, failed, watchers,
                   tried, raisedAt, report>>

MainNext ==
    \/ MainFor
    \/ \E ok \in BOOLEAN : RbCreate(ok)
    \/ \E ok \in BOOLEAN : RbLoad(ok)
    \/ RbStart
    \/ \E ok \in BOOLEAN : RbMsg1(ok)
    \/ \E ok \in BOOLEAN : RbMsg2(ok)
    \/ RbPollJoin
    \/ \E ok \in BOOLEAN : RbFetch(ok)
    \/ \E st \in FinalStats(harness), q \in BOOLEAN, text \in AssistantTexts :
          RbReturn(st, q, text)
    \/ MainExcept
    \/ \E allow \in BOOLEAN, x \in {"", "m1"} : MainVerdict(allow, x)
    \/ MainExit

SpecMain == MainInit /\ [][MainNext]_vars

-----------------------------------------------------------------------------
(* C3 *)

StatsGrow(a, b) ==
    /\ \A f \in {"thinking_chunks", "text_deltas", "assistant_messages",
                 "tool_calls", "tool_results"} : a[f] <= b[f]
    /\ \A f \in {"assistant_models", "tool_call_ids", "tool_result_ids"} :
          a[f] \subseteq b[f]
    /\ Len(a.errors) <= Len(b.errors)
    /\ SubSeq(b.errors, 1, Len(a.errors)) = a.errors

\* C3: no step of the watcher (routing an event, a failed open, a connection
\* that ends, a reconnect, the stop) lowers a counter of the stats, removes a
\* member from one of its sets, or changes its errors other than by appending.
C3_StatsOnlyGrow == [][StatsGrow(stats, stats')]_vars

\* the watcher has stopped after two logged failures, a reconnect and events
C3_Witness ==
    /\ Stopped
    /\ stop_event
    /\ Len(stats.errors) >= 2
    /\ Len(opens) >= 3
    /\ stats.assistant_messages >= 1
    /\ stats.tool_call_ids # {}

-----------------------------------------------------------------------------
(* C4 *)

Payload(ev) == JsonLoads(ev.data)[1]

\* the events the watcher has handed to on_event and on_event has accepted
Accepted ==
    {i \in 1..Len(delivered) : StreamAccept(MissionId, delivered[i].data) = "route"}

OfType(t) == {i \in Accepted : delivered[i].type = <<t>>}

RoutedEnough ==
    /\ Cardinality(OfType("assistant_message")) >= 2
    /\ \E i \in OfType("text_delta") : Payload(delivered[i]).content # <<>>
    /\ require_thinking =>
          \E i \in OfType("thinking") : Payload(delivered[i]).content # <<>>
    /\ \E i \in OfType("tool_call"), j \in OfType("tool_result") :
          /\ Payload(delivered[i]).tool_call_id # ""
          /\ Payload(delivered[i]).tool_call_id = Payload(delivered[j]).tool_call_id

\* C4: whatever the interleaving of the watcher's writes with the reads of a
\* poll, the poll returns true only if the watcher has routed two
\* assistant_message events, a non-empty text_delta, a non-empty thinking event
\* when thinking is required, and a tool_call and a tool_result with the same id.
C4_NoFalseSuccess == polled = "true" => RoutedEnough

\* a poll returned true while the watcher was between the two statements of an
\* event it was routing
C4_Witness ==
    /\ polled = "true"
    /\ wpc = "route2"
    /\ require_thinking

-----------------------------------------------------------------------------
(* C5 *)

\* C5: when the polling loop ended at its deadline, no poll having returned
\* true, the verdict main reports for the backend is FAIL.
C5_TimeoutMeansFail == (polled = "deadline" /\ verdict # "none") => verdict = "FAIL"

-----------------------------------------------------------------------------
(* C6 *)

Front(q) == SubSeq(q, 1, Len(q) - 1)

Last(q) == q[Len(q)]

\* the counters and sets that routing the delivered events once each gives
ExpectedStats ==
    IF wpc = "route2"
    THEN RouteCount(RoutedAll(NewStreamStats, Front(delivered)),
                    Last(delivered).type, Payload(Last(delivered)))
    ELSE RoutedAll(NewStreamStats, delivered)

\* C6: the watcher is Listening only on a connection whose open succeeded; the
\* events parse_sse yields are the events delivered on a connection, one for
\* one; and the counters and sets are those of routing each of them once,
\* whatever failed opens and reconnects there were; every failed open is logged.
C6_ReconnectKeepsCounts ==
    /\ Listening => (opens # <<>> /\ Last(opens) = "ok")
    /\ emitted = delivered
    /\ [stats EXCEPT !.errors = <<>>] = ExpectedStats
    /\ NumFails <= Len(stats.errors)

\* two failed opens, then a connection that delivered the first event and was
\* cut in the second, then a connection that delivered the rest
C6_Witness ==
    /\ opens = <<"fail", "fail", "ok", "ok">>
    /\ Listening
    /\ sidx > Len(Script)
    /\ stats.assistant_messages = 2
    /\ stats.tool_calls = 0
    /\ stats.tool_results = 1

-----------------------------------------------------------------------------
(* C7 *)

\* C7: with a timeout of 2 seconds and no open that succeeds, the watcher is
\* never Listening and routes nothing, the polling ends at its deadline, the
\* verdict is FAIL, an error is logged, and run_backend returns at most one
\* back-off (1 second) after the deadline.
C7_AllOpensFail ==
    (timeout = 2 * TicksPerSecond /\ \A i \in 1..Len(opens) : opens[i] = "fail") =>
        /\ ~Listening
        /\ delivered = <<>>
        /\ polled # "true"
        /\ verdict # "OK"
        /\ mpc \in {"returned", "reported"} => stats.errors # <<>>
        /\ late <= Backoff

-----------------------------------------------------------------------------
(* C8 *)

\* C8: from Connecting or Listening, once stop_event is set or the deadline of
\* the watcher has passed, the watcher eventually is Stopped.
C8_EventuallyStopped ==
    ((Connecting \/ Listening) /\ (stop_event \/ wdl = 0)) ~> Stopped

-----------------------------------------------------------------------------
(* C9 *)

\* C9: a backend whose create request failed has no watcher started, main has
\* flagged and printed the failure once it has caught it, and when main exits
\* run_backend has been called for every backend of the list, in order.
C9_CreateFailureSkipsOnlyThatBackend ==
    /\ \A b \in Backends : raisedAt[b] = "create" =>
          /\ b \notin watchers
          /\ (b # backend \/ bpc # "except") =>
                (failed /\ \E i \in 1..Len(report) : report[i] = FailedLine(b))
    /\ bpc = "exited" => tried = [i \in 1..NumBackends |-> i]

\* main has exited with status 1: the first backend failed in create, the last
\* one ran with its watcher and returned
C9_Witness ==
    /\ bpc = "exited"
    /\ exit_code = 1
    /\ raisedAt[1] = "create"
    /\ NumBackends \in watchers
    /\ \E i \in 1..Len(results) : results[i].backend = NumBackends

-----------------------------------------------------------------------------
(* C10 *)

\* C10: when main exits, it has called run_backend for every backend and has
\* printed a verdict (name, passed, stats) for every backend.
C10_VerdictForEveryBackend ==
    bpc = "exited" =>
        /\ Len(tried) = NumBackends
        /\ \A b \in Backends : \E i \in 1..Len(report) :
              report[i].backend = b /\ report[i].kind = "verdict"

-----------------------------------------------------------------------------
(* C11 *)

SomeBackendFailed ==
    \/ \E b \in Backends : raisedAt[b] # ""
    \/ \E i \in 1..Len(report) : report[i].kind = "verdict" /\ ~report[i].passed

\* C11: the exit status is set only when main exits, after run_backend was
\* called for every backend; it is non-zero exactly when a backend failed to
\* run or got a FAIL verdict, and 0 when every backend passed.
C11_ExitStatus ==
    IF bpc = "exited"
    THEN /\ Len(tried) = NumBackends
         /\ exit_code \in {0, 1}
         /\ exit_code # 0 <=> SomeBackendFailed
    ELSE exit_code = -1

\* main exits with 1 although no backend failed to run: one verdict is OK,
\* another is FAIL
C11_Witness ==
    /\ bpc = "exited"
    /\ exit_code = 1
    /\ \A b \in Backends : raisedAt[b] = ""
    /\ \E i \in 1..Len(report) : report[i].passed
    /\ \E i \in 1..Len(report) : ~report[i].passed

-----------------------------------------------------------------------------
(* C12 *)

FreshLocals == [event_type |-> None, data_lines |-> <<>>, emitted |-> <<>>]

RECURSIVE ParseAll(_, _)
\* parse_sse over lines, from the locals and the events emitted so far of loc
ParseAll(loc, lines) ==
    IF lines = <<>> THEN loc
    ELSE LET r == ParseLine(loc.event_type, loc.data_lines, Head(lines)) IN
         ParseAll([event_type |-> r.event_type, data_lines |-> r.data_lines,
                   emitted |-> loc.emitted \o r.emit],
                  Tail(lines))

IsComment(line) == StartsWith(line, ":")

NoComments(lines) == SelectSeq(lines, LAMBDA l : ~IsComment(l))

\* C12: the events emitted for a line sequence, and the pending label and data
\* lines after it, are those of the same sequence without its comment lines
\* (the lines that start with ":"), wherever the comment lines stand.
C12_CommentsChangeNothing ==
    LET bare == ParseAll(FreshLocals, NoComments(input)) IN
    /\ emitted = bare.emitted
    /\ event_type = bare.event_type
    /\ data_lines = bare.data_lines

\* an event was emitted for a group with a comment line between its event:
\* line and its data: line
C12_Witness ==
    /\ Len(emitted) >= 1
    /\ \E i \in 1..(Len(input) - 3) :
          /\ StartsWith(input[i], "event:")
          /\ IsComment(input[i + 1])
          /\ StartsWith(input[i + 2], "data:")
          /\ input[i + 3] = <<>>
          /\ Complete(input, i + 3)

-----------------------------------------------------------------------------
(* C13 *)

Required(st, rt) ==
    /\ st.assistant_messages >= 2
    /\ st.text_deltas >= 1
    /\ ~rt \/ st.thinking_chunks >= 1
    /\ st.tool_calls >= 1
    /\ st.tool_results >= 1
    /\ \E id \in st.tool_call_ids : id \in st.tool_result_ids

\* C13: on every stats value has_required_events(require_thinking) is true
\* exactly when assistant_messages >= 2, text_deltas >= 1, thinking_chunks >= 1
\* if thinking is required, tool_calls >= 1, tool_results >= 1 and an id is in
\* both id sets; a call returns that value and leaves the stats as they were.
C13_RequiredEventsExactly ==
    /\ [](harness = "stream" =>
            (has_required_events(stats, require_thinking)
                <=> Required(stats, require_thinking)))
    /\ [][polled' # polled =>
            /\ stats' = stats
            /\ polled' = "true" <=> Required(stats, require_thinking)]_vars

\* a call returned true on stats without a thinking chunk, thinking not being
\* required
C13_Witness ==
    /\ harness = "stream"
    /\ polled = "true"
    /\ ~require_thinking
    /\ stats.thinking_chunks = 0
    /\ Required(stats, require_thinking)

-----------------------------------------------------------------------------
(* One connection of the watcher: parse_sse(resp, self.on_event) reading the
   frames a server sends, up to MaxFrames of them *)

MaxFrames == 5

\* the frames the server sends: <<event type, document>>
FeedFrames ==
    { <<"assistant_message", "J_mine">>, <<"text_delta", "J_c">>,
      <<"tool_call", "J_x1">>, <<"tool_call", "J_x2">>,
      <<"tool_result", "J_x1">>, <<"tool_call", "J_other">>,
      <<"tool_result", "garbage">> }

\* the lines the server may send next: the lines of a frame, in order
FeedLines ==
    LET pos == Len(input) % 3 IN
    IF pos = 0 THEN {Frame(f[1], f[2])[1] : f \in FeedFrames}
    ELSE IF pos = 1
    THEN {Frame(f[1], f[2])[2] :
            f \in {g \in FeedFrames : Frame(g[1], g[2])[1] = input[Len(input)]}}
    ELSE {<<>>}

FeedInit ==
    /\ event_type = None
    /\ data_lines = <<>>
    /\ input = <<>>
    /\ emitted = <<>>
    /\ emitAt = <<>>
    /\ pdone = FALSE
    /\ harness = "stream"
    /\ require_thinking = FALSE
    /\ stats = NewStreamStats
    /\ afterTrue = FALSE
    /\ RunIdle
    /\ MainIdle

\* one iteration of parse_sse's loop, the call of on_event it makes included;
\* an exception of on_event ends parse_sse and is logged by run (lines 163-164)
FeedLine(line) ==
    /\ ~pdone
    /\ Len(input) < 3 * MaxFrames
    /\ line \in FeedLines
    /\ LET r == ParseLine(event_type, data_lines, line)
           o == IF r.emit = <<>> THEN [stats |-> stats, raised |-> FALSE]
                ELSE StreamOnEvent(stats, MissionId, r.emit[1].type, r.emit[1].data)
       IN
        /\ event_type' = r.event_type
        /\ data_lines' = r.data_lines
        /\ emitted' = emitted \o r.emit
        /\ emitAt' = IF r.emit = <<>> THEN emitAt
                     ELSE Append(emitAt, Len(input) + 1)
        /\ stats' = IF o.raised THEN RunExcept(o.stats, "AttributeError")
                    ELSE o.stats
        /\ pdone' = o.raised
    /\ input' = Append(input, line)
    /\ afterTrue' = (afterTrue \/ Predicate)
    /\ UNCHANGED <<bvars, harness, require_thinking, rvars>>

FeedNext == \E line \in FeedLines : FeedLine(line)

SpecFeed == FeedInit /\ [][FeedNext]_vars

-----------------------------------------------------------------------------
(* C14 *)

\* the input is the two groups of scenario A (one tool_call and one
\* tool_result that carry the id x1), after groups that are no tool events
ScenarioA ==
    /\ Len(input) >= 6
    /\ SubSeq(input, Len(input) - 5, Len(input))
         = Frame("tool_call", "J_x1") \o Frame("tool_result", "J_x1")
    /\ \A i \in 1..(Len(input) - 6) :
         input[i] \notin {Frame(f[1], f[2])[1] :
                            f \in {g \in FeedFrames :
                                     g[1] \in {"tool_call", "tool_result"}}}

ScenarioACounts ==
    /\ stats.tool_calls = 1
    /\ stats.tool_results = 1
    /\ stats.tool_call_ids \cap stats.tool_result_ids = {"x1"}

\* C14, as the spec states it: after the tool_call group and the tool_result
\* group of one id have been parsed and routed, tool_calls = 1,
\* tool_results = 1 and the ids in both sets are exactly that id; and with at
\* least one assistant message counted, the streaming-shape policy without
\* the thinking requirement returns true
C14_ScenarioA_AsStated ==
    ScenarioA =>
        /\ ScenarioACounts
        /\ stats.assistant_messages >= 1 => has_required_events(stats, FALSE)

\* C14, amended: after the tool_call group and the tool_result group of one id
\* have been parsed and routed, tool_calls = 1, tool_results = 1 and the ids
\* in both sets are exactly that id; in that state the streaming-shape policy
\* without the thinking requirement returns true exactly when at least two
\* assistant messages and at least one text delta have been counted
C14_ScenarioA ==
    ScenarioA =>
        /\ ScenarioACounts
        /\ has_required_events(stats, FALSE)
             <=> (stats.assistant_messages >= 2 /\ stats.text_deltas >= 1)

C14_Witness ==
    /\ ScenarioA
    /\ stats.assistant_messages = 2
    /\ stats.text_deltas = 1
    /\ has_required_events(stats, FALSE)

-----------------------------------------------------------------------------
(* proxy_smoke.py: run_streaming_test, that is parse_sse_events with
   on_sse_event as its callback, reading up to MaxChunks frames.  The loop
   body of parse_sse_events (lines 91-105) is that of parse_sse: ParseLine. *)

MaxChunks == 3

\* what a frame of a chat-completion stream carries
ChunkDocs == {"J_chunk", "J_last", "[DONE]"}

\* a frame is a data: line and a blank line, with or without an event: line
\* before them
ProxyEventLine == <<"event:", " ", "message">>

ProxyDataLine(doc) == <<"data:", " ", doc>>

\* the lines the server may send next
ProxyLines ==
    IF input = <<>> \/ input[Len(input)] = <<>>
    THEN {ProxyEventLine} \cup {ProxyDataLine(d) : d \in ChunkDocs}
    ELSE IF input[Len(input)] = ProxyEventLine
    THEN {ProxyDataLine(d) : d \in ChunkDocs}
    ELSE {<<>>}

\* the data: lines read so far
ProxyDataRead == SelectSeq(input, LAMBDA l : StartsWith(l, "data:"))

ProxyInit ==
    /\ event_type = None
    /\ data_lines = <<>>
    /\ input = <<>>
    /\ emitted = <<>>
    /\ emitAt = <<>>
    /\ pdone = FALSE
    /\ harness = "proxy"
    /\ require_thinking = FALSE
    /\ stats = NewProxyStats
    /\ afterTrue = FALSE
    /\ RunIdle
    /\ MainIdle

\* one iteration of the loop of parse_sse_events, the call of on_sse_event it
\* makes included; an exception of on_sse_event ends the loop and is logged
\* by run_streaming_test (lines 161-162)
ProxyFeedLine(line) ==
    /\ ~pdone
    /\ line \in ProxyLines
    /\ Len(ProxyDataRead) < MaxChunks \/ line = <<>>
    /\ LET r == ParseLine(event_type, data_lines, line)
           o == IF r.emit = <<>> THEN [stats |-> stats, raised |-> FALSE]
                ELSE ProxyOnSseEvent(stats, r.emit[1].data)
       IN
        /\ event_type' = r.event_type
        /\ data_lines' = r.data_lines
        /\ emitted' = emitted \o r.emit
        /\ emitAt' = IF r.emit = <<>> THEN emitAt
                     ELSE Append(emitAt, Len(input) + 1)
        /\ stats' = IF o.raised THEN RunExcept(o.stats, "AttributeError")
                    ELSE o.stats
        /\ pdone' = o.raised
    /\ input' = Append(input, line)
    /\ afterTrue' = (afterTrue \/ Predicate)
    /\ UNCHANGED <<bvars, harness, require_thinking, rvars>>

\* readline() returned b"": "if not line: break"
ProxyEof ==
    /\ ~pdone
    /\ pdone' = TRUE
    /\ UNCHANGED <<bvars, event_type, data_lines, input, emitted, emitAt, svars,
                   rvars>>

ProxyNext ==
    \/ \E line \in {<<>>, ProxyEventLine} \cup {ProxyDataLine(d) : d \in ChunkDocs} :
          ProxyFeedLine(line)
    \/ ProxyEof

SpecProxy == ProxyInit /\ [][ProxyNext]_vars

-----------------------------------------------------------------------------
(* C15 *)

\* the documents of the data: lines read, in order
ChunksRead == [i \in 1..Len(ProxyDataRead) |-> ProxyDataRead[i][3]]

\* the stream was a chat-completion stream of scenario B and has ended: every
\* frame a chunk with content, the last one with finish_reason "stop"
ScenarioB ==
    /\ pdone
    /\ ChunksRead # <<>>
    /\ input[Len(input)] = <<>>
    /\ \A i \in 1..Len(ChunksRead) :
         ChunksRead[i] = IF i = Len(ChunksRead) THEN "J_last" ELSE "J_chunk"

\* C15: after a chat-completion stream whose chunks all have content and whose
\* last chunk has finish_reason "stop" went through parse_sse_events and
\* on_sse_event, ok() is true, chunks is the number of chunks and
\* content_deltas holds the chunks' contents in arrival order
C15_ScenarioB ==
    ScenarioB =>
        /\ proxy_ok(stats)
        /\ stats.chunks = Len(ChunksRead)
        /\ stats.content_deltas
             = [i \in 1..Len(ChunksRead) |->
                  JsonTable[ChunksRead[i]].choices[1].content]

-----------------------------------------------------------------------------
(* C16 *)

\* an emitted event of this mission: its payload decodes to an object whose
\* mission_id is absent or the watcher's
OfMission(ev) ==
    LET j == JsonLoads(ev.data) IN
    j # None /\ j[1].isobj /\ j[1].mission_id \in {"", MissionId}

\* the tool_call_id of such an event's payload, "" if it has none
IdOf(ev) == IF OfMission(ev) THEN JsonLoads(ev.data)[1].tool_call_id ELSE ""

\* the ids that an emitted tool_call and an emitted tool_result both carried
MatchedIds ==
    {id \in {"x1", "x2"} :
       /\ \E i \in 1..Len(emitted) :
            emitted[i].type = <<"tool_call">> /\ IdOf(emitted[i]) = id
       /\ \E i \in 1..Len(emitted) :
            emitted[i].type = <<"tool_result">> /\ IdOf(emitted[i]) = id}

\* C16: the ids in both tool_call_ids and tool_result_ids are exactly the ids
\* that a routed tool_call and a routed tool_result both carried, and while
\* there is no such id the streaming-shape predicate is false, however many
\* tool_call and tool_result events have been counted
C16_OnlyMatchedResults ==
    /\ stats.tool_call_ids \cap stats.tool_result_ids = MatchedIds
    /\ MatchedIds = {} => \A rt \in BOOLEAN : ~has_required_events(stats, rt)

\* every counter is high enough, a tool_call and a tool_result each carried an
\* id, and no id was carried by both
C16_Witness ==
    /\ MatchedIds = {}
    /\ stats.assistant_messages >= 2 /\ stats.text_deltas >= 1
    /\ stats.tool_calls >= 1 /\ stats.tool_results >= 1
    /\ stats.tool_call_ids # {} /\ stats.tool_result_ids # {}
    /\ ~has_required_events(stats, FALSE)

-----------------------------------------------------------------------------
(* C17 *)

\* C17: every event handed to on_event has a non-empty event type and a
\* non-empty payload text; a group whose event: line or whose data: lines have
\* nothing after the prefix emits no event
C17_NoEmptyEvent ==
    \A i \in 1..Len(emitted) : emitted[i].type # <<>> /\ emitted[i].data # <<>>

-----------------------------------------------------------------------------
(* C18 *)

\* the emitted events of this mission that have the given type
RoutedOf(etype) ==
    {i \in 1..Len(emitted) : OfMission(emitted[i]) /\ emitted[i].type = <<etype>>}

DocOf(i) == JsonLoads(emitted[i].data)[1]

\* C18: an emitted event whose payload has a mission_id other than the
\* watcher's changes no counter, no set and not the error log, and every other
\* emitted event is routed per the routing table: the stats are those of the
\* events whose mission_id is absent or the watcher's own
C18_OtherMissionDiscarded ==
    /\ stats.assistant_messages = Cardinality(RoutedOf("assistant_message"))
    /\ stats.text_deltas
         = Cardinality({i \in RoutedOf("text_delta") : DocOf(i).content # <<>>})
    /\ stats.thinking_chunks
         = Cardinality({i \in RoutedOf("thinking") : DocOf(i).content # <<>>})
    /\ stats.tool_calls = Cardinality(RoutedOf("tool_call"))
    /\ stats.tool_results = Cardinality(RoutedOf("tool_result"))
    /\ stats.tool_call_ids
         = {DocOf(i).tool_call_id : i \in RoutedOf("tool_call")} \ {""}
    /\ stats.tool_result_ids
         = {DocOf(i).tool_call_id : i \in RoutedOf("tool_result")} \ {""}
    /\ stats.assistant_models
         = {Strip(DocOf(i).model[1]) :
              i \in {k \in RoutedOf("assistant_message") : DocOf(k).model # None}}
           \ {<<>>}
    /\ stats.errors = <<>>

\* events of another mission, of this mission and without mission_id were
\* emitted, and only the latter two were counted
C18_Witness ==
    /\ \E i \in 1..Len(emitted) :
         JsonLoads(emitted[i].data) # None /\ ~OfMission(emitted[i])
    /\ \E i \in 1..Len(emitted) :
         OfMission(emitted[i]) /\ DocOf(i).mission_id = MissionId
    /\ \E i \in 1..Len(emitted) :
         OfMission(emitted[i]) /\ DocOf(i).mission_id = ""
    /\ stats.assistant_messages = 1
    /\ stats.tool_calls = 1
    /\ stats.tool_call_ids = {"x2"}

-----------------------------------------------------------------------------
(* C19 *)

\* the emitted events whose payload text is no JSON
Undecodable == {i \in 1..Len(emitted) : JsonLoads(emitted[i].data) = None}

\* C19: an emitted event whose payload is not valid JSON changes no counter and
\* no set, is recorded in the stats error log, raises nothing, and the watcher
\* goes on reading the connection and routes the events that follow
C19_InvalidPayloadLogged ==
    /\ stats.tool_results = Cardinality(RoutedOf("tool_result"))
    /\ stats.tool_result_ids
         = {DocOf(i).tool_call_id : i \in RoutedOf("tool_result")} \ {""}
    /\ ~pdone
    /\ Len(stats.errors) = Cardinality(Undecodable)

-----------------------------------------------------------------------------
(* C20 *)

\* a connection failure: an open that fails, or an I/O error while Listening
ConnectionFails == WOpenFail \/ WReadError

\* C20: every connection failure appends exactly one message to the error log
\* and starts the back-off pause; the pause is at most BACKOFF_S long and ends
\* in the loop test, which makes a new connection attempt unless stop is
\* signalled or the deadline is reached; the thread ends only by that test,
\* never by the failure, and the run that owns it goes on
C20_FailureBacksOffAndReconnects ==
    /\ [][ConnectionFails =>
            /\ Len(stats'.errors) = Len(stats.errors) + 1
            /\ SubSeq(stats'.errors, 1, Len(stats.errors)) = stats.errors
            /\ wpc' = "backoff" /\ wtimer' = Backoff]_vars
    /\ [](wpc = "backoff" => wtimer <= BACKOFF_S * TicksPerSecond)
    /\ [][wpc = "backoff" /\ wpc' # "backoff" => wpc' = "loop" /\ wtimer = 0]_vars
    /\ [][wpc = "loop" /\ wpc' # "loop" =>
            wpc' = IF stop_event \/ wdl = 0 THEN "done" ELSE "open"]_vars
    /\ [][wpc' = "done" /\ wpc # "done" => wpc = "loop"]_vars
    /\ [][ConnectionFails => mpc' = mpc /\ verdict' = verdict]_vars

\* an open failed and a read failed, each was logged once and backed off from,
\* and the watcher is connecting again
C20_Witness ==
    /\ stats.errors = <<"open failed", "read failed">>
    /\ opens = <<"fail", "ok">>
    /\ drops = 1
    /\ wpc = "open"
    /\ ~stop_event /\ wdl > 0

-----------------------------------------------------------------------------
(* C21 *)

\* C21: when polling has ended run_backend sets the stop signal and starts a
\* join of at most JOIN_TIMEOUT_S seconds; time passes in the join only while
\* that timeout runs, and once it is over, or the watcher has ended, the join
\* returns and run_backend returns its result, whether or not the watcher
\* thread has ended
C21_BoundedJoinThenReturn ==
    /\ [][mpc = "stop" /\ mpc' # "stop" =>
            stop_event' /\ mpc' = "join" /\ mtimer' = JoinTimeout]_vars
    /\ [](mpc = "join" => stop_event /\ mtimer <= JOIN_TIMEOUT_S * TicksPerSecond)
    /\ [][Tick /\ mpc = "join" => mtimer > 0 /\ mtimer' = mtimer - 1]_vars
    /\ [](mpc = "join" /\ (mtimer = 0 \/ wpc = "done") => ENABLED MJoin)
    /\ [][mpc = "join" /\ mpc' # "join" => mpc' = "returned"]_vars

\* run_backend has returned while its watcher is still running
C21_Witness ==
    /\ mpc = "returned"
    /\ stop_event
    /\ wpc \notin {"done", "idle"}

-----------------------------------------------------------------------------
(* C22 *)

One(b) == IF b THEN 1 ELSE 0

OneOf(b, x) == IF b THEN {x} ELSE {}

\* the routing table, field by field: what st is after an accepted event of
\* type etype with the decoded payload p
Table(st, etype, p) ==
    [thinking_chunks |->
        st.thinking_chunks + One(etype = <<"thinking">> /\ p.content # <<>>),
     text_deltas |->
        st.text_deltas + One(etype = <<"text_delta">> /\ p.content # <<>>),
     assistant_messages |->
        st.assistant_messages + One(etype = <<"assistant_message">>),
     tool_calls |-> st.tool_calls + One(etype = <<"tool_call">>),
     tool_results |-> st.tool_results + One(etype = <<"tool_result">>),
     assistant_models |->
        st.assistant_models
        \cup IF p.model = None THEN {}
             ELSE OneOf(etype = <<"assistant_message">> /\ Strip(p.model[1]) # <<>>,
                        Strip(p.model[1])),
     tool_call_ids |->
        st.tool_call_ids
        \cup OneOf(etype = <<"tool_call">> /\ p.tool_call_id # "", p.tool_call_id),
     tool_result_ids |->
        st.tool_result_ids
        \cup OneOf(etype = <<"tool_result">> /\ p.tool_call_id # "", p.tool_call_id),
     errors |-> st.errors]

\* the payload texts of StreamPayloads that on_event accepts for this mission
AcceptedPayloads ==
    {raw \in StreamPayloads :
       LET j == JsonLoads(raw) IN
       j # None /\ j[1].isobj /\ j[1].mission_id \in {"", MissionId}}

\* C22: routing one accepted event changes the stats as the routing table says
\* for its type and leaves every other field unchanged, for every event type
\* (one the table does not list included) and every accepted payload, from
\* every stats value that routing reaches
C22_RoutingTouchesOnlyItsFields ==
    harness = "stream" =>
        \A etype \in EventTypes, raw \in AcceptedPayloads :
           LET r == StreamOnEvent(stats, MissionId, etype, raw) IN
           ~r.raised /\ r.stats = Table(stats, etype, JsonLoads(raw)[1])

\* events of every listed type have been routed into the stats
C22_Witness ==
    /\ harness = "stream"
    /\ stats.thinking_chunks = 1 /\ stats.text_deltas = 1
    /\ stats.assistant_messages = 2 /\ stats.assistant_models = {<<"m1">>}
    /\ stats.tool_calls = 2 /\ stats.tool_call_ids = {"x1"}
    /\ stats.tool_results = 1 /\ stats.tool_result_ids = {"x2"}

-----------------------------------------------------------------------------
(* C23 *)

\* C23: the pending label and the pending data lines are those of the lines
\* read since the most recent blank line, so a blank line leaves both empty
\* whether or not it emitted; and every emitted event carries a label and data
\* lines of the group its blank line closed, none from before the blank line
\* that precedes that group
C23_BlankLineResets ==
    LET n == Len(input) + 1 IN
    /\ event_type = IF LabelIdx(input, n) = {} THEN None
                    ELSE Some(Strip(Tail(input[Max(LabelIdx(input, n))])))
    /\ data_lines = ValuesAt(input, DataIdx(input, n), 1)
    /\ (input # <<>> /\ input[Len(input)] = <<>>) =>
          (event_type = None /\ data_lines = <<>>)
    /\ \A k \in 1..Len(emitted) :
          /\ \E j \in LabelIdx(input, emitAt[k]) :
                emitted[k].type = Strip(Tail(input[j]))
          /\ emitted[k].data = JoinNl(ValuesAt(input, DataIdx(input, emitAt[k]), 1))

\* a label whose group had no data, a blank line, then data without a label
\* and a blank line: nothing was emitted
C23_Witness ==
    /\ Len(input) >= 4
    /\ \E i \in 1..(Len(input) - 3) :
          /\ StartsWith(input[i], "event:") /\ Strip(Tail(input[i])) # <<>>
          /\ input[i + 1] = <<>>
          /\ StartsWith(input[i + 2], "data:")
          /\ input[i + 3] = <<>>
          /\ ~Complete(input, i + 3)
    /\ emitted = <<>>
    /\ event_type = None /\ data_lines = <<>>

-----------------------------------------------------------------------------
(* C24 *)

\* C24: while the watcher is Listening, the pending label and data lines are
\* those of the lines read on this connection (since its last blank line),
\* whatever an earlier connection left pending when it ended; every emitted
\* event is an event the server sent, whole, on one connection, and a group
\* that a connection was cut in is never emitted
C24_ParserResetOnOpen ==
    /\ Listening =>
          LET n == Len(input) + 1 IN
          /\ event_type = IF LabelIdx(input, n) = {} THEN None
                          ELSE Some(Strip(Tail(input[Max(LabelIdx(input, n))])))
          /\ data_lines = ValuesAt(input, DataIdx(input, n), 1)
    /\ \A k \in 1..Len(emitted) :
          \E f \in 1..Len(ScriptEvents) : emitted[k] = ScriptEvents[f]
    /\ emitted = delivered

\* a connection ended inside a group, and a later connection delivered the
\* groups that follow: every group but the cut one was emitted
C24_Witness ==
    /\ drops = 1
    /\ Listening
    /\ sidx > Len(Script)
    /\ input = <<>>
    /\ Len(emitted) = Len(ScriptEvents) - 1

-----------------------------------------------------------------------------
(* C25 *)

\* the step of run_backend that may follow each step
StepsAfter ==
    [create |-> {"load", "raised"}, load |-> {"start", "raised"},
     start |-> {"msg1"}, msg1 |-> {"msg2", "raised"}, msg2 |-> {"poll", "raised"},
     poll |-> {"check", "stop"}, check |-> {"psleep", "stop"}, psleep |-> {"poll"},
     stop |-> {"join"}, join |-> {"returned"}, returned |-> {"reported"},
     raised |-> {}, reported |-> {}]

\* C25: run_backend takes its steps in the order create, load, start the
\* watcher, first and second message, poll (test, sleep of a fixed length,
\* test, ...) until true or the deadline, set the stop signal, bounded join,
\* return; no message is sent before the watcher was started, and the stop
\* signal is set only after polling has ended
C25_StepsInOrder ==
    /\ [][mpc' # mpc => mpc' \in StepsAfter[mpc]]_vars
    /\ [](mpc \in {"create", "load", "start"} => wpc = "idle")
    /\ [](mpc \in DOMAIN StepsAfter \ {"create", "load", "start", "raised"}
            => wpc # "idle")
    /\ [](stop_event <=> mpc \in {"join", "returned", "reported"})
    /\ [](polled # "none" <=> mpc \in {"stop", "join", "returned", "reported"})
    /\ [](mpc = "psleep" => mtimer <= PollSleep)
    /\ [](mpc \in {"create", "load", "start", "msg1", "msg2"} => pdl = 0)

\* the whole normal path was taken: the predicate became true while polling,
\* after at least one sleep, and run_backend returned
C25_Witness ==
    /\ mpc = "returned"
    /\ polled = "true"
    /\ stop_event
    /\ wpc = "done"
    /\ pdl < timeout

-----------------------------------------------------------------------------
(* C26 *)

\* C26: every blocking operation of the run is started with a timeout no
\* greater than the time left to the deadline of its thread, so none is still
\* blocked after that deadline: what is left of the watcher's open, read or
\* back-off is at most what is left to the watcher's deadline, and what is
\* left of the polling sleep is at most what is left to the polling deadline
C26_TimeoutsWithinDeadline ==
    /\ wpc \in {"open", "read", "backoff"} => wtimer <= wdl
    /\ mpc = "psleep" => mtimer <= pdl

-----------------------------------------------------------------------------
(* C27 *)

\* C27: two consecutive open attempts are separated by a back-off pause: once
\* an open was attempted, the watcher comes back to its loop test (from where,
\* unless stopped, it opens again) only out of the back-off pause, also when
\* the connection ended by a clean close of the server
C27_BackoffBetweenOpens ==
    [][(wpc' = "loop" /\ wpc # "loop" /\ opens # <<>> /\ ~stop_event)
         => wpc = "backoff"]_vars

-----------------------------------------------------------------------------
(* C28 *)

\* C28: while run_backend is polling, its deadline not reached and the stop
\* signal not set, the watcher has not ended: the watcher's own deadline never
\* ends its loop before the polling deadline
C28_WatcherOutlastsPolling ==
    (mpc \in {"poll", "check", "psleep"} /\ pdl > 0 /\ ~stop_event)
        => wpc # "done"

-----------------------------------------------------------------------------
(* C29 *)

\* C29: on every path out of run_backend, by its return or by an exception,
\* a watcher that was started has been sent the stop signal
C29_EveryWatcherStopped ==
    (mpc \in {"raised", "returned", "reported"} /\ wpc # "idle") => stop_event

-----------------------------------------------------------------------------
(* C30 *)

-----------------------------------------------------------------------------
(* C31 *)

\* the parts of main's verdict other than the completion predicate
OtherVerdictParts(allow_missing_model, expected) ==
    /\ queued_ok
    /\ allow_missing_model \/ stats.assistant_models # {}
    /\ expected # "" =>
          \E m \in stats.assistant_models : \E i \in 1..Len(m) : m[i] = expected

\* C31: once a poll of the completion predicate has returned true, the
\* predicate is true of the stats at every later moment of the run, through
\* stop, join and what the watcher still does; so when main computes the
\* verdict the predicate part is true, and the verdict is OK exactly when the
\* other parts of the verdict hold
C31_PolledTrueStaysTrue ==
    /\ [](polled = "true" => has_required_events(stats, require_thinking))
    /\ [][polled = "true" =>
            \A allow \in BOOLEAN, x \in {"", "m1", "zz"} :
               MVerdict(allow, x) =>
                  (verdict' = "OK" <=> OtherVerdictParts(allow, x))]_vars

\* a poll returned true in a run whose watcher had logged a failed open, the
\* watcher went on after the poll, and main reported OK
C31_Witness ==
    /\ mpc = "reported"
    /\ polled = "true"
    /\ verdict = "OK"
    /\ stats.errors # <<>>
    /\ wpc = "done"

====
